---------------------------- MODULE Spec2Model ----------------------------
(***************************************************************************)
(* Model of the OCR text extractor: the batch orchestrator                 *)
(* (ocr_processor.py), the Drive authentication (auth.py) and the text     *)
(* cleaner / combiner (text_processor.py).                                 *)
(*                                                                         *)
(* Texts are sequences of one-character strings.  File names are numbers:  *)
(* stem k stands for the k-th stem in lexicographic order, extension form   *)
(* k for the k-th form in lexicographic order, so that the order of paths   *)
(* is the order of the pairs.                                              *)
(***************************************************************************)
EXTENDS Integers, Sequences, FiniteSets, TLC

(***************************************************************************)
(* Bounds of the model.                                                    *)
(***************************************************************************)
MaxStems == 2

Stems == 1..MaxStems

\* Extension forms of the files in the images directory, in lexicographic
\* order of their spelling: 1 = ".JPG", 2 = ".jpg", 3 = ".txt".
ExtForms == {1, 2, 3}

\* The lower-case and upper-case spellings of a supported extension: what
\* rglob('*' + ext) and rglob('*' + ext.upper()) match.
MatchedForms == {1, 2}

\* A file that does not exist: a value no content (a sequence of
\* one-character strings) equals.
Absent == <<"(absent)">>
None == "None"
\* error_msg of a return without a message.
NoMsg == [name |-> <<0, 0>>]

(***************************************************************************)
(* Sequence helpers.                                                       *)
(***************************************************************************)
Range(s) == {s[k] : k \in 1..Len(s)}

PathLess(p, q) == p[1] < q[1] \/ (p[1] = q[1] /\ p[2] < q[2])

\* sorted(paths): the ascending sequence of a set of paths.
RECURSIVE SortedPaths(_)
SortedPaths(S) ==
    IF S = {} THEN <<>>
    ELSE LET m == CHOOSE p \in S : \A q \in S \ {p} : PathLess(p, q)
         IN  <<m>> \o SortedPaths(S \ {m})


(***************************************************************************)
(* Python string operations, computed as the interpreter computes them.    *)
(***************************************************************************)
\* The characters str.split() treats as whitespace, among those of the model.
Whitespace == {" ", "\n", "\r", "\t"}

\* Index of the first occurrence of character c in t, 0 when there is none.
FirstIndex(t, c) ==
    IF \E k \in 1..Len(t) : t[k] = c
    THEN CHOOSE k \in 1..Len(t) : t[k] = c /\ \A j \in 1..(k-1) : t[j] # c
    ELSE 0

\* t.split(c) for a one-character separator: always at least one part.
RECURSIVE SplitOn(_, _)
SplitOn(t, c) ==
    LET k == FirstIndex(t, c)
    IN  IF k = 0 THEN <<t>>
        ELSE <<SubSeq(t, 1, k-1)>> \o SplitOn(SubSeq(t, k+1, Len(t)), c)

\* sep.join(parts)
RECURSIVE JoinWith(_, _)
JoinWith(parts, sep) ==
    IF parts = <<>> THEN <<>>
    ELSE IF Len(parts) = 1 THEN parts[1]
    ELSE parts[1] \o sep \o JoinWith(Tail(parts), sep)

\* t.replace(a, b) for one-character a and b.
Replace(t, a, b) == [k \in 1..Len(t) |-> IF t[k] = a THEN b ELSE t[k]]

\* t.split(): the maximal runs of non-whitespace characters.
RECURSIVE SplitWhitespace(_)
SplitWhitespace(t) ==
    IF t = <<>> THEN <<>>
    ELSE IF Head(t) \in Whitespace THEN SplitWhitespace(Tail(t))
    ELSE LET n == IF \E k \in 1..Len(t) : t[k] \in Whitespace
                  THEN (CHOOSE k \in 1..Len(t) :
                           /\ t[k] \in Whitespace
                           /\ \A j \in 1..(k-1) : t[j] \notin Whitespace) - 1
                  ELSE Len(t)
         IN  <<SubSeq(t, 1, n)>> \o SplitWhitespace(SubSeq(t, n+1, Len(t)))

\* open(path, 'r').read(): text mode translates "\r\n" and "\r" to "\n".
RECURSIVE ReadText(_)
ReadText(t) ==
    IF t = <<>> THEN <<>>
    ELSE IF Head(t) = "\r"
         THEN IF Len(t) >= 2 /\ t[2] = "\n"
              THEN <<"\n">> \o ReadText(SubSeq(t, 3, Len(t)))
              ELSE <<"\n">> \o ReadText(Tail(t))
         ELSE <<Head(t)>> \o ReadText(Tail(t))

(***************************************************************************)
(* extract_text_from_image, lines 143-148: the removal of the two          *)
(* metadata lines from the exported text.                                  *)
(***************************************************************************)
StripMetadata_Ge2(content) ==
    LET lines == SplitOn(content, "\n")
    IN  IF Len(lines) >= 2
        THEN JoinWith(SubSeq(lines, 3, Len(lines)), <<"\n">>)
        ELSE content

StripMetadata(content) ==
    LET lines == SplitOn(content, "\n")
    IN  IF Len(lines) > 2
        THEN JoinWith(SubSeq(lines, 3, Len(lines)), <<"\n">>)
        ELSE content

(***************************************************************************)
(* clean_text_file, lines 31-34: the transform of the text cleaner.        *)
(***************************************************************************)
CleanText_NoCollapse(content) ==
    Replace(Replace(content, "\n", " "), "\r", " ")

CleanText(content) ==
    JoinWith(SplitWhitespace(Replace(Replace(content, "\n", " "), "\r", " ")),
             <<" ">>)


(***************************************************************************)
(* State.                                                                  *)
(***************************************************************************)
VARIABLES
    \* --- the process running process_all_images
    pc,               \* "start", "discover", "loop", "summary", "done", "exited"
    step,             \* position inside extract_text_from_image
    service,          \* self.service is set
    exit_status,      \* <<status>> of sys.exit, <<>> while the process runs
    auth_error,       \* the exception initialize_service caught, None if none
    image_files,      \* the list get_image_files returned
    i,                \* 1-based index of the loop over image_files
    successful, failed, errors, processed_files, total,
    \* --- the file system and the remote service
    imagesDir,        \* the files under images/
    raw_texts,        \* raw_texts/<stem>.txt : content, or Absent
    texts,            \* texts/<stem>.txt : content, or Absent
    remote,           \* documents this run created on the Drive, not deleted
    \* --- what happened in this run (history)
    attempted,        \* the paths handed to extract_text_from_image, in order
    both_existed,     \* stems whose two artifacts existed when reached
    skipped,          \* stems that took the "already processed" return
    upload_calls,     \* stems for which an upload request was executed
    written,          \* <<directory, stem, existed before>> of every artifact
                      \* opened for writing
    combine_called,   \* _handle_text_combination was called
    completed,        \* stems whose pipeline ran to "processed successfully"
    combined,         \* directories in which a Combined Artifact was produced
    prev_all_ok,      \* the previous run of the batch ended with failed = 0
    \* --- the metadata stripping alone (specification SpecStrip)
    export_text,      \* the decoded export of the remote document
    raw_written,      \* what is written to the raw artifact, Absent before
    \* --- clean_text_file alone (specification SpecCleanFile)
    raw_file,         \* the raw file: content, or Absent
    clean_file,       \* the clean file: content, or Absent
    clean_log,        \* what clean_text_file(raw_file, clean_file) met
    reclean_file,     \* the file the clean file is cleaned into
    reclean_log,      \* what clean_text_file(clean_file, reclean_file) met
    \* --- the text combiner alone (specification SpecCombine)
    dirs,             \* texts/ and raw_texts/: file name -> bytes
    now,              \* int(time.time())
    combine_returned, \* what the last combination returned
    prev_returned,    \* what the combination before the last one returned
    txt_files,        \* the candidate list of the last combination
    \* --- get_image_files alone (specification SpecDiscover)
    tree,             \* the entries under images/, at any depth
    supported_extensions,  \* config.supported_extensions
    discover_called,  \* get_image_files has returned
    discovered        \* the list it returned

procVars == <<pc, step, service, exit_status, auth_error, image_files, i,
              successful, failed, errors, processed_files, total>>
envVars  == <<imagesDir, raw_texts, texts, remote>>
histVars == <<attempted, both_existed, skipped, upload_calls, written,
              combine_called, completed, combined, prev_all_ok>>
batchVars == <<procVars, envVars, histVars>>
stripVars == <<export_text, raw_written>>
cleanVars == <<raw_file, clean_file, clean_log, reclean_file, reclean_log>>
\* The variables of the specifications of one routine, which the batch
\* leaves alone.
combineVars == <<dirs, now, combine_returned, prev_returned, txt_files>>
discoverVars == <<tree, supported_extensions, discover_called, discovered>>
routineVars == <<stripVars, cleanVars, combineVars, discoverVars>>

\* The images directory that holds, for each of the stems, a file of every
\* extension form.
ImagesOf(stems) == stems \X ExtForms

\* The text the remote OCR produces for the image with this stem; an
\* unchanged image gives the same text on every upload.
OcrText(stem) ==
    IF stem % 2 = 1
    THEN <<"m", "\n", "m", "\n", "x", " ", " ", "y", "\r", "\n">>
    ELSE <<"m", "\n", "x">>

(***************************************************************************)
(* auth.py: get_credentials and initialize_service.                        *)
(***************************************************************************)
\* What initialize_service's try block ends with: "ok", or the class of the
\* exception it catches.  token_valid: token.json holds valid credentials;
\* cred_file: the credentials file exists; flow_ok: the authorization flow
\* ran; build_ok: authorize and discovery.build succeeded.
AuthOutcome(token_valid, cred_file, flow_ok, build_ok) ==
    IF ~token_valid /\ ~cred_file THEN "FileNotFoundError"
    ELSE IF ~token_valid /\ ~flow_ok THEN "Exception"
    ELSE IF ~build_ok THEN "Exception"
    ELSE "ok"

\* Whether initialize_service ends the process for this outcome.
ExitsOn_OnlyMissingFile(outcome) == outcome = "FileNotFoundError"

ExitsOn(outcome) == outcome # "ok"

InitializeService ==
    /\ pc = "start"
    /\ ~service
    /\ \E token_valid, cred_file, flow_ok, build_ok \in BOOLEAN :
         LET outcome == AuthOutcome(token_valid, cred_file, flow_ok, build_ok)
         IN  /\ auth_error' = IF outcome = "ok" THEN None ELSE outcome
             /\ IF ExitsOn(outcome)
                THEN /\ pc' = "exited"
                     /\ exit_status' = <<1>>
                     /\ service' = FALSE
                ELSE /\ pc' = "discover"
                     /\ exit_status' = exit_status
                     /\ service' = (outcome = "ok")
    /\ UNCHANGED <<step, image_files, i, successful, failed, errors,
                   processed_files, total>>
    /\ UNCHANGED envVars
    /\ UNCHANGED histVars
    /\ UNCHANGED routineVars

(***************************************************************************)
(* get_image_files.                                                        *)
(***************************************************************************)
\* The first path of each stem, in the order of the sequence.
RECURSIVE UniqueStems(_, _)
UniqueStems(paths, seen_stems) ==
    IF paths = <<>> THEN <<>>
    ELSE IF Head(paths)[1] \in seen_stems
         THEN UniqueStems(Tail(paths), seen_stems)
         ELSE <<Head(paths)>>
              \o UniqueStems(Tail(paths), seen_stems \cup {Head(paths)[1]})

get_image_files(dir) ==
    UniqueStems(SortedPaths({p \in dir : p[2] \in MatchedForms}), {})

GetImageFiles ==
    /\ pc = "discover"
    /\ image_files' = get_image_files(imagesDir)
    /\ IF image_files' = <<>>
       THEN pc' = "done" /\ step' = None /\ i' = 0
       ELSE pc' = "loop" /\ step' = "check" /\ i' = 1
    /\ UNCHANGED <<service, exit_status, auth_error, successful, failed, errors,
                   processed_files, total>>
    /\ UNCHANGED envVars
    /\ UNCHANGED histVars
    /\ UNCHANGED routineVars


(***************************************************************************)
(* process_all_images, lines 198-211: the loop's handling of what          *)
(* extract_text_from_image returned for image_files[i].                    *)
(***************************************************************************)
cur == image_files[i]
stem == cur[1]

Advance ==
    IF i < Len(image_files)
    THEN i' = i + 1 /\ step' = "check" /\ pc' = "loop"
    ELSE i' = i + 1 /\ step' = None /\ pc' = "summary"

Return_AbortOnFailure(success, error_msg) ==
    /\ IF success
       THEN /\ successful' = successful + 1
            /\ processed_files' = Append(processed_files, cur)
            /\ UNCHANGED <<failed, errors>>
            /\ Advance
       ELSE /\ failed' = failed + 1
            /\ errors' = IF error_msg # NoMsg THEN Append(errors, error_msg)
                         ELSE errors
            /\ UNCHANGED <<successful, processed_files>>
            /\ i' = i + 1 /\ step' = None /\ pc' = "summary"
    /\ UNCHANGED <<service, exit_status, auth_error, image_files, total>>

Return(success, error_msg) ==
    /\ IF success
       THEN /\ successful' = successful + 1
            /\ processed_files' = Append(processed_files, cur)
            /\ UNCHANGED <<failed, errors>>
       ELSE /\ failed' = failed + 1
            /\ errors' = IF error_msg # NoMsg THEN Append(errors, error_msg)
                         ELSE errors
            /\ UNCHANGED <<successful, processed_files>>
    /\ Advance
    /\ UNCHANGED <<service, exit_status, auth_error, image_files, total>>

\* Inside extract_text_from_image: the process moves to the next step.
Goto(next) ==
    /\ step' = next
    /\ UNCHANGED <<pc, service, exit_status, auth_error, image_files, i,
                   successful, failed, errors, processed_files, total>>

\* The message of the except clauses, lines 164-171: "Google API error
\* processing <name>: ..." for an HttpError, "Error processing <name>: ..."
\* for any other exception.  The model keeps the file the message names.
ErrorMsg(exception, path) == [name |-> path]

\* The exceptions a call of the remote service raises.
RemoteErrors == {"HttpError", "Exception"}

(***************************************************************************)
(* extract_text_from_image.                                                *)
(***************************************************************************)
\* Lines 92-96: what the "already processed" branch returns.
SkipResult_NotCounted == <<FALSE, NoMsg>>

SkipResult == <<TRUE, NoMsg>>

\* Line 93: the test of "already processed".
AlreadyProcessed(txtfile, raw_txtfile) ==
    txtfile # Absent /\ raw_txtfile # Absent

\* Lines 87-96.
CheckProcessed ==
    /\ pc = "loop" /\ step = "check"
    /\ attempted' = Append(attempted, cur)
    /\ both_existed' = IF texts[stem] # Absent /\ raw_texts[stem] # Absent
                       THEN both_existed \cup {stem}
                       ELSE both_existed
    /\ IF AlreadyProcessed(texts[stem], raw_texts[stem])
       THEN /\ skipped' = skipped \cup {stem}
            /\ Return(SkipResult[1], SkipResult[2])
       ELSE /\ Goto("upload")
            /\ UNCHANGED skipped
    /\ UNCHANGED envVars
    /\ UNCHANGED <<upload_calls, written, combine_called, completed,
                   combined, prev_all_ok>>
    /\ UNCHANGED routineVars

\* Lines 106-119: files().create(...).execute().  Without a service the call
\* raises (None has no files()).
Upload ==
    /\ pc = "loop" /\ step = "upload"
    /\ upload_calls' = upload_calls \cup {stem}
    /\ \E outcome \in {"ok"} \cup RemoteErrors :
         /\ service \/ outcome = "Exception"
         /\ IF outcome = "ok"
            THEN remote' = remote \cup {stem} /\ Goto("export")
            ELSE remote' = remote /\ Return(FALSE, ErrorMsg(outcome, cur))
    /\ UNCHANGED <<imagesDir, raw_texts, texts>>
    /\ UNCHANGED <<attempted, both_existed, skipped, written,
                   combine_called, completed, combined, prev_all_ok>>
    /\ UNCHANGED routineVars

\* Lines 122-141: export_media, the chunked download into the buffer and its
\* decoding.
Export ==
    /\ pc = "loop" /\ step = "export"
    /\ \E outcome \in {"ok"} \cup RemoteErrors :
         IF outcome = "ok"
         THEN Goto("save_raw")
         ELSE Return(FALSE, ErrorMsg(outcome, cur))
    /\ UNCHANGED envVars
    /\ UNCHANGED histVars
    /\ UNCHANGED routineVars

\* Lines 143-152: strip the metadata and write the raw artifact.  open(.., 'w')
\* creates or truncates the file; a failed write leaves it truncated.
SaveRaw ==
    /\ pc = "loop" /\ step = "save_raw"
    /\ \E outcome \in {"ok", "open_error", "write_error"} :
         /\ raw_texts' =
              IF outcome = "ok"
              THEN [raw_texts EXCEPT ![stem] = StripMetadata(OcrText(stem))]
              ELSE IF outcome = "write_error"
              THEN [raw_texts EXCEPT ![stem] = <<>>]
              ELSE raw_texts
         /\ written' =
              IF outcome = "open_error" THEN written
              ELSE written \cup {<<"raw_texts", stem, raw_texts[stem] # Absent>>}
         /\ IF outcome = "ok"
            THEN Goto("delete")
            ELSE Return(FALSE, ErrorMsg("Exception", cur))
    /\ UNCHANGED <<imagesDir, texts, remote>>
    /\ UNCHANGED <<attempted, both_existed, skipped, upload_calls,
                   combine_called, completed, combined, prev_all_ok>>
    /\ UNCHANGED routineVars

\* Line 155: what files().delete(fileId=file_id).execute() leaves on the Drive.
RemoteAfterDelete_Kept(docs, file_id) == docs

RemoteAfterDelete(docs, file_id) == docs \ {file_id}

Delete ==
    /\ pc = "loop" /\ step = "delete"
    /\ \E outcome \in {"ok"} \cup RemoteErrors :
         IF outcome = "ok"
         THEN remote' = RemoteAfterDelete(remote, stem) /\ Goto("clean")
         ELSE remote' = remote /\ Return(FALSE, ErrorMsg(outcome, cur))
    /\ UNCHANGED <<imagesDir, raw_texts, texts>>
    /\ UNCHANGED histVars
    /\ UNCHANGED routineVars


(***************************************************************************)
(* clean_text_file.  primary_fails names the first step of lines 27-37     *)
(* that raises ("none", "read", "open", "write"); copy_fails the first     *)
(* step of the fallback, lines 46-48, that raises ("none", "open_raw",     *)
(* "open", "read", "write").  A missing raw file makes its open raise.     *)
(* The result is the clean file's content after the call and what the      *)
(* call met.                                                               *)
(***************************************************************************)
PrimaryFailures == {"none", "read", "open", "write"}
CopyFailures == {"none", "open_raw", "open", "read", "write"}

CleanTextFile_NoFallback(raw, clean, primary_fails, copy_fails) ==
    LET p == IF raw = Absent THEN "read" ELSE primary_fails
    IN  [clean |-> IF p = "none" THEN CleanText(ReadText(raw))
                   ELSE IF p = "write" THEN <<>>
                   ELSE clean,
         primary_failed |-> p # "none",
         copy_failed |-> FALSE,
         raw_unreadable |-> p = "read",
         opened |-> p \in {"none", "write"}]

CleanTextFile(raw, clean, primary_fails, copy_fails) ==
    LET p == IF raw = Absent THEN "read" ELSE primary_fails
        c == IF raw = Absent THEN "open_raw" ELSE copy_fails
        \* the clean file when the except clause is entered
        clean0 == IF p = "write" THEN <<>> ELSE clean
    IN  IF p = "none"
        THEN [clean |-> CleanText(ReadText(raw)),
              primary_failed |-> FALSE,
              copy_failed |-> FALSE,
              raw_unreadable |-> FALSE,
              opened |-> TRUE]
        ELSE [clean |-> IF c = "none" THEN ReadText(raw)
                        ELSE IF c \in {"read", "write"} THEN <<>>
                        ELSE clean0,
              primary_failed |-> TRUE,
              copy_failed |-> c # "none",
              raw_unreadable |-> p = "read" \/ c \in {"open_raw", "read"},
              opened |-> p = "write" \/ c \in {"none", "read", "write"}]

\* Lines 157-162: clean_text_file never raises; the image is reported
\* processed.
Clean ==
    /\ pc = "loop" /\ step = "clean"
    /\ \E primary_fails \in PrimaryFailures, copy_fails \in CopyFailures :
         LET r == CleanTextFile(raw_texts[stem], texts[stem],
                                primary_fails, copy_fails)
         IN  /\ texts' = [texts EXCEPT ![stem] = r.clean]
             /\ written' = IF r.opened
                           THEN written
                                \cup {<<"texts", stem, texts[stem] # Absent>>}
                           ELSE written
    /\ completed' = completed \cup {stem}
    /\ Return(TRUE, NoMsg)
    /\ UNCHANGED <<imagesDir, raw_texts, remote>>
    /\ UNCHANGED <<attempted, both_existed, skipped, upload_calls,
                   combine_called, combined, prev_all_ok>>
    /\ UNCHANGED routineVars

(***************************************************************************)
(* process_all_images, lines 213-228, and _handle_text_combination.        *)
(***************************************************************************)
\* Line 225: whether the combination is triggered.
ShouldCombine_Always(n_successful) == TRUE

ShouldCombine(n_successful) == n_successful > 0

\* combine_texts / combine_texts_with_headers on one directory: a Combined
\* Artifact is produced when there is a candidate file and no I/O error.
Candidates(files) == {s \in DOMAIN files : files[s] # Absent}

\* The directories in which _handle_text_combination produces a Combined
\* Artifact (in either mode: include_headers only selects the routine).
HandleTextCombination(combine_texts, combine_raw, texts_io_ok, raw_io_ok) ==
    (IF combine_texts /\ Candidates(texts) # {} /\ texts_io_ok
     THEN {"texts"} ELSE {})
    \cup
    (IF combine_raw /\ Candidates(raw_texts) # {} /\ raw_io_ok
     THEN {"raw_texts"} ELSE {})

Summary ==
    /\ pc = "summary"
    /\ total' = Len(image_files)
    /\ IF ShouldCombine(successful)
       THEN /\ combine_called' = TRUE
            /\ \E combine_texts, combine_raw, texts_io_ok, raw_io_ok \in BOOLEAN :
                 combined' = HandleTextCombination(combine_texts, combine_raw,
                                                   texts_io_ok, raw_io_ok)
       ELSE UNCHANGED <<combine_called, combined>>
    /\ pc' = "done"
    /\ UNCHANGED <<step, service, exit_status, auth_error, image_files, i,
                   successful, failed, errors, processed_files>>
    /\ UNCHANGED envVars
    /\ UNCHANGED <<attempted, both_existed, skipped, upload_calls, written,
                   completed, prev_all_ok>>
    /\ UNCHANGED routineVars


(***************************************************************************)
(* The batch, run again: a new process on the same directories.            *)
(***************************************************************************)
FreshProcess ==
    /\ pc' = "start"
    /\ step' = None
    /\ service' = FALSE
    /\ exit_status' = <<>>
    /\ auth_error' = None
    /\ image_files' = <<>>
    /\ i' = 0
    /\ successful' = 0
    /\ failed' = 0
    /\ errors' = <<>>
    /\ processed_files' = <<>>
    /\ total' = 0
    /\ remote' = {}
    /\ attempted' = <<>>
    /\ both_existed' = {}
    /\ skipped' = {}
    /\ upload_calls' = {}
    /\ written' = {}
    /\ combine_called' = FALSE
    /\ completed' = {}
    /\ combined' = {}

RunAgain ==
    /\ pc = "done"
    /\ prev_all_ok' = (failed = 0 /\ total > 0)
    /\ FreshProcess
    /\ UNCHANGED <<imagesDir, raw_texts, texts>>
    /\ UNCHANGED routineVars

\* The artifacts an earlier, successful processing of the image left.
PriorRaw(s) == StripMetadata(OcrText(s))
PriorClean(s) == CleanText(ReadText(PriorRaw(s)))

BatchInit ==
    /\ pc = "start"
    /\ step = None
    /\ service = FALSE
    /\ exit_status = <<>>
    /\ auth_error = None
    /\ image_files = <<>>
    /\ i = 0
    /\ successful = 0
    /\ failed = 0
    /\ errors = <<>>
    /\ processed_files = <<>>
    /\ total = 0
    /\ \E n \in 0..MaxStems : imagesDir = ImagesOf(1..n)
    /\ \E R, T \in SUBSET Stems :
         /\ raw_texts = [s \in Stems |-> IF s \in R THEN PriorRaw(s) ELSE Absent]
         /\ texts = [s \in Stems |-> IF s \in T THEN PriorClean(s) ELSE Absent]
    /\ remote = {}
    /\ attempted = <<>>
    /\ both_existed = {}
    /\ skipped = {}
    /\ upload_calls = {}
    /\ written = {}
    /\ combine_called = FALSE
    /\ completed = {}
    /\ combined = {}
    /\ prev_all_ok = FALSE

\* The batch is not running: the state of the specifications of one routine.
BatchIdle ==
    /\ pc = "idle"
    /\ step = None
    /\ service = FALSE
    /\ exit_status = <<>>
    /\ auth_error = None
    /\ image_files = <<>>
    /\ i = 0
    /\ successful = 0
    /\ failed = 0
    /\ errors = <<>>
    /\ processed_files = <<>>
    /\ total = 0
    /\ imagesDir = {}
    /\ raw_texts = [s \in Stems |-> Absent]
    /\ texts = [s \in Stems |-> Absent]
    /\ remote = {}
    /\ attempted = <<>>
    /\ both_existed = {}
    /\ skipped = {}
    /\ upload_calls = {}
    /\ written = {}
    /\ combine_called = FALSE
    /\ completed = {}
    /\ combined = {}
    /\ prev_all_ok = FALSE

NoCleanLog == [called |-> FALSE, primary_failed |-> FALSE,
               copy_failed |-> FALSE, raw_unreadable |-> FALSE]

StripIdle ==
    /\ export_text = <<>>
    /\ raw_written = Absent

CleanIdle ==
    /\ raw_file = Absent
    /\ clean_file = Absent
    /\ clean_log = NoCleanLog
    /\ reclean_file = Absent
    /\ reclean_log = NoCleanLog

\* A directory without files, and the return value None of a combination.
EmptyDir == [f \in {} |-> <<>>]
NoPath == <<None, <<"", 0, "">>>>

CombineIdle ==
    /\ dirs = [d \in {"texts", "raw_texts"} |-> EmptyDir]
    /\ now = 0
    /\ combine_returned = NoPath
    /\ prev_returned = NoPath
    /\ txt_files = {}

DiscoverIdle ==
    /\ tree = {}
    /\ supported_extensions = <<>>
    /\ discover_called = FALSE
    /\ discovered = <<>>

vars == <<batchVars, stripVars, cleanVars, combineVars, discoverVars>>

Init ==
    /\ BatchInit
    /\ StripIdle
    /\ CleanIdle
    /\ CombineIdle
    /\ DiscoverIdle

Next ==
    \/ InitializeService
    \/ GetImageFiles
    \/ CheckProcessed
    \/ Upload
    \/ Export
    \/ SaveRaw
    \/ Delete
    \/ Clean
    \/ Summary
    \/ RunAgain

Spec == Init /\ [][Next]_vars

(***************************************************************************)
(* The metadata stripping on every export text (specification SpecStrip).  *)
(***************************************************************************)
MaxExportLen == 5

\* The texts of at most n characters of the alphabet.
TextsUpTo(alphabet, n) == UNION {[1..k -> alphabet] : k \in 0..n}

StripInit ==
    /\ BatchIdle
    /\ CleanIdle
    /\ CombineIdle
    /\ DiscoverIdle
    /\ export_text \in TextsUpTo({"m", "x", "\n"}, MaxExportLen)
    /\ raw_written = Absent

\* Lines 139-152 with no failure: the decoded content is stripped and
\* written to the raw artifact.
StripAndWrite ==
    /\ raw_written = Absent
    /\ raw_written' = StripMetadata(export_text)
    /\ UNCHANGED export_text
    /\ UNCHANGED <<batchVars, cleanVars, combineVars, discoverVars>>

StripNext == StripAndWrite

SpecStrip == StripInit /\ [][StripNext]_vars

(***************************************************************************)
(* clean_text_file on every raw text (specification SpecCleanFile): the    *)
(* raw file is cleaned into the clean file, and the clean file is cleaned  *)
(* again into a third file.                                                *)
(***************************************************************************)
MaxRawLen == 4

CleanAlphabet == {"x", " ", "\n", "\r", "\t"}

CleanInit ==
    /\ BatchIdle
    /\ StripIdle
    /\ CombineIdle
    /\ DiscoverIdle
    /\ raw_file \in TextsUpTo(CleanAlphabet, MaxRawLen) \cup {Absent}
    /\ clean_file \in {Absent, <<"o", "l", "d">>}
    /\ clean_log = NoCleanLog
    /\ reclean_file = Absent
    /\ reclean_log = NoCleanLog

LogOf(r) == [called |-> TRUE, primary_failed |-> r.primary_failed,
             copy_failed |-> r.copy_failed,
             raw_unreadable |-> r.raw_unreadable]

\* clean_text_file(raw_file, clean_file)
CleanRawFile ==
    /\ ~clean_log.called
    /\ \E primary_fails \in PrimaryFailures, copy_fails \in CopyFailures :
         LET r == CleanTextFile(raw_file, clean_file, primary_fails, copy_fails)
         IN  /\ clean_file' = r.clean
             /\ clean_log' = LogOf(r)
    /\ UNCHANGED <<raw_file, reclean_file, reclean_log>>
    /\ UNCHANGED <<batchVars, stripVars, combineVars, discoverVars>>

\* clean_text_file(clean_file, reclean_file): cleaning what was cleaned.
CleanCleanFile ==
    /\ clean_log.called
    /\ ~reclean_log.called
    /\ \E primary_fails \in PrimaryFailures, copy_fails \in CopyFailures :
         LET r == CleanTextFile(clean_file, reclean_file,
                                primary_fails, copy_fails)
         IN  /\ reclean_file' = r.clean
             /\ reclean_log' = LogOf(r)
    /\ UNCHANGED <<raw_file, clean_file, clean_log>>
    /\ UNCHANGED <<batchVars, stripVars, combineVars, discoverVars>>

CleanNext ==
    \/ CleanRawFile
    \/ CleanCleanFile

SpecCleanFile == CleanInit /\ [][CleanNext]_vars


(***************************************************************************)
(* The text combiner (specification SpecCombine).  A file name is          *)
(* <<prefix, n, extension>>: <<"", 2, "txt">> is the second plain text     *)
(* file in lexicographic order, <<"combined_all_", t, "txt">> is           *)
(* combined_all_<t>.txt.                                                   *)
(***************************************************************************)
MaxFiles == 2
MaxTime == 1

FileContents == {<<>>, <<"x">>, <<"y", "\n">>}

PlainNames == {<<"", k, "txt">> : k \in 1..MaxFiles}
\* Files the combination must leave out: a combined file of an earlier day
\* and a file that is no text file.
PriorCombined == <<"combined_", 0, "txt">>
LogFile == <<"", 1, "log">>

\* name.startswith('combined_')
StartsWithCombined(name) ==
    name[1] \in {"combined_", "combined_all_", "combined_cleaned_",
                 "combined_raw_"}

\* Line 81: the separator written between two files.
Separator ==
    <<"\n", "\n", "-", "-", "-", " ", "N", "e", "x", "t", " ",
      "F", "i", "l", "e", " ", "-", "-", "-", "\n", "\n">>

\* _get_text_directory
GetTextDirectory(output_dir) ==
    IF output_dir = "texts" THEN "texts"
    ELSE IF output_dir = "raw_texts" THEN "raw_texts"
    ELSE None

\* _get_combinable_files: glob('*.txt') without the combined files.
GetCombinableFiles(dir) ==
    {f \in {g \in DOMAIN dir : g[3] = "txt"} : ~StartsWithCombined(f)}

\* sorted(txt_files): the names in lexicographic order.
RECURSIVE SortedNames(_)
SortedNames(S) ==
    IF S = {} THEN <<>>
    ELSE LET m == CHOOSE f \in S : \A g \in S \ {f} : PathLess(<<f[2], 0>>, <<g[2], 0>>)
         IN  <<m>> \o SortedNames(S \ {m})

\* Lines 72-81: the bytes the loop has written after its first `upto` files;
\* idx is the 1-based position, so enumerate's i is idx - 1.
RECURSIVE CopyFiles_TrailingSeparator(_, _, _, _)
CopyFiles_TrailingSeparator(dir, sorted, idx, upto) ==
    IF idx > upto THEN <<>>
    ELSE dir[sorted[idx]]
         \o (IF idx - 1 <= Len(sorted) - 1 THEN Separator ELSE <<>>)
         \o CopyFiles_TrailingSeparator(dir, sorted, idx + 1, upto)

RECURSIVE CopyFiles(_, _, _, _)
CopyFiles(dir, sorted, idx, upto) ==
    IF idx > upto THEN <<>>
    ELSE dir[sorted[idx]]
         \o (IF idx - 1 < Len(sorted) - 1 THEN Separator ELSE <<>>)
         \o CopyFiles(dir, sorted, idx + 1, upto)

\* dir with the file `name` holding `bytes` (open(.., 'wb') creates or
\* truncates it).
WithFile(dir, name, bytes) ==
    [f \in DOMAIN dir \cup {name} |-> IF f = name THEN bytes ELSE dir[f]]

\* combine_texts(output_dir) at time `timestamp`.  open_ok: the output file
\* could be opened; fail_at: the 1-based position of the first candidate
\* whose read raises, 0 if none does.  The result is the directories after
\* the call and the value returned.
combine_texts(ds, output_dir, timestamp, open_ok, fail_at) ==
    LET text_dir == GetTextDirectory(output_dir)
    IN  IF text_dir = None
        THEN [dirs |-> ds, returned |-> NoPath, candidates |-> {}]
        ELSE
        LET candidates == GetCombinableFiles(ds[text_dir])
            sorted == SortedNames(candidates)
            output_path == <<"combined_all_", timestamp, "txt">>
        IN  IF candidates = {} \/ ~open_ok
            THEN [dirs |-> ds, returned |-> NoPath, candidates |-> candidates]
            ELSE IF fail_at \in 1..Len(sorted)
            THEN [dirs |-> [ds EXCEPT ![text_dir] =
                               WithFile(@, output_path,
                                   CopyFiles(ds[text_dir], sorted, 1,
                                             fail_at - 1))],
                  returned |-> NoPath, candidates |-> candidates]
            ELSE [dirs |-> [ds EXCEPT ![text_dir] =
                               WithFile(@, output_path,
                                   CopyFiles(ds[text_dir], sorted, 1,
                                             Len(sorted)))],
                  returned |-> <<text_dir, output_path>>,
                  candidates |-> candidates]

(***************************************************************************)
(* combine_texts_with_headers and its writers, lines 90-134 and 151-177.   *)
(***************************************************************************)
\* c * n: the character c, n times.
Rep(c, n) == [k \in 1..n |-> c]

\* str(n) of a natural number.
RECURSIVE Str(_)
Str(n) ==
    LET digit == <<"0", "1", "2", "3", "4", "5", "6", "7", "8", "9">>[(n % 10) + 1]
    IN  IF n < 10 THEN <<digit>> ELSE Str(n \div 10) \o <<digit>>

\* time.strftime('%Y-%m-%d %H:%M:%S') in the first minute of the epoch, the
\* local time being UTC.
StrfTime(t) ==
    <<"1", "9", "7", "0", "-", "0", "1", "-", "0", "1", " ",
      "0", "0", ":", "0", "0", ":">>
    \o (IF t < 10 THEN <<"0">> ELSE <<>>) \o Str(t)

\* t.strip(): without the whitespace at both ends.
RECURSIVE Strip(_)
Strip(t) ==
    IF t = <<>> THEN <<>>
    ELSE IF Head(t) \in Whitespace THEN Strip(Tail(t))
    ELSE IF t[Len(t)] \in Whitespace THEN Strip(SubSeq(t, 1, Len(t) - 1))
    ELSE t

\* txt_file.name of a plain text file: a.txt, b.txt, ... in name order.
FileName(f) ==
    <<(<<"a", "b", "c", "d", "e", "f", "g", "h">>[f[2]])>>
    \o <<".", "t", "x", "t">>

\* Line 97: "cleaned" for texts, "raw" otherwise.
FilePrefix(output_dir) == IF output_dir = "texts" THEN "cleaned" ELSE "raw"

\* file_prefix.upper()
PrefixUpper(file_prefix) ==
    IF file_prefix = "cleaned"
    THEN <<"C", "L", "E", "A", "N", "E", "D">>
    ELSE <<"R", "A", "W">>

\* _write_combined_file_header
CombinedFileHeader(file_prefix, file_count, t) ==
    <<"C", "o", "m", "b", "i", "n", "e", "d", " ">> \o PrefixUpper(file_prefix)
    \o <<" ", "O", "C", "R", " ", "T", "e", "x", "t", " ",
         "F", "i", "l", "e", "s", "\n">>
    \o <<"G", "e", "n", "e", "r", "a", "t", "e", "d", ":", " ">>
    \o StrfTime(t) \o <<"\n">>
    \o <<"T", "o", "t", "a", "l", " ", "f", "i", "l", "e", "s", ":", " ">>
    \o Str(file_count) \o <<"\n">>
    \o Rep("=", 80) \o <<"\n", "\n">>

\* _write_file_separator
FileSeparator(file_number, filename) ==
    Rep("=", 60) \o <<"\n">>
    \o <<"F", "I", "L", "E", " ">> \o Str(file_number) \o <<":", " ">>
    \o filename \o <<"\n">>
    \o Rep("=", 60) \o <<"\n", "\n">>

NoContent ==
    <<"[", "N", "o", " ", "c", "o", "n", "t", "e", "n", "t", " ", "o", "r", " ",
      "e", "m", "p", "t", "y", " ", "f", "i", "l", "e", "]">>

\* The marker written for a file whose read raised; the text of the
\* exception is shortened to "EIO".
ReadErrorMarker ==
    <<"[", "E", "r", "r", "o", "r", " ", "r", "e", "a", "d", "i", "n", "g", " ",
      "f", "i", "l", "e", ":", " ", "E", "I", "O", "]", "\n">>

\* _write_file_content: what is written for a file holding `bytes`.
FileContent(bytes, readable) ==
    IF ~readable THEN ReadErrorMarker
    ELSE LET stripped == Strip(ReadText(bytes))
         IN  (IF stripped # <<>> THEN stripped ELSE NoContent) \o <<"\n">>

\* Line 127: the rule between two files.
DashedRule == <<"\n">> \o Rep("-", 40) \o <<"\n", "\n">>

\* Lines 115-127: what the loop writes from the file at position idx on;
\* fail_at is the position of the candidate whose read raises, 0 if none.
RECURSIVE WriteFiles(_, _, _, _)
WriteFiles(dir, sorted, idx, fail_at) ==
    IF idx > Len(sorted) THEN <<>>
    ELSE FileSeparator(idx, FileName(sorted[idx]))
         \o FileContent(dir[sorted[idx]], idx # fail_at)
         \o (IF idx - 1 < Len(sorted) - 1 THEN DashedRule ELSE <<>>)
         \o WriteFiles(dir, sorted, idx + 1, fail_at)

\* combine_texts_with_headers(output_dir) at time `timestamp`.  open_ok: the
\* output file could be opened; fail_at as for WriteFiles.
combine_texts_with_headers(ds, output_dir, timestamp, open_ok, fail_at) ==
    LET text_dir == GetTextDirectory(output_dir)
    IN  IF text_dir = None
        THEN [dirs |-> ds, returned |-> NoPath, candidates |-> {}]
        ELSE
        LET file_prefix == FilePrefix(output_dir)
            candidates == GetCombinableFiles(ds[text_dir])
            sorted == SortedNames(candidates)
            output_path == <<IF file_prefix = "cleaned"
                              THEN "combined_cleaned_"
                              ELSE "combined_raw_", timestamp, "txt">>
        IN  IF candidates = {} \/ ~open_ok
            THEN [dirs |-> ds, returned |-> NoPath, candidates |-> candidates]
            ELSE [dirs |-> [ds EXCEPT ![text_dir] =
                               WithFile(@, output_path,
                                   CombinedFileHeader(file_prefix,
                                                      Len(sorted), timestamp)
                                   \o WriteFiles(ds[text_dir], sorted, 1,
                                                 fail_at))],
                  returned |-> <<text_dir, output_path>>,
                  candidates |-> candidates]

CombineInit ==
    /\ BatchIdle
    /\ StripIdle
    /\ CleanIdle
    /\ DiscoverIdle
    /\ now = 0
    /\ combine_returned = NoPath
    /\ prev_returned = NoPath
    /\ txt_files = {}
    /\ \E d \in {"texts", "raw_texts"}, P \in SUBSET PlainNames :
         \E c \in [P -> FileContents] :
            dirs = [e \in {"texts", "raw_texts"} |->
                      IF e = d
                      THEN [f \in P \cup {PriorCombined, LogFile} |->
                              IF f \in P THEN c[f] ELSE <<"x">>]
                      ELSE EmptyDir]

CombineTexts ==
    /\ \E output_dir \in {"texts", "raw_texts", "other"},
          open_ok \in BOOLEAN, fail_at \in 0..MaxFiles :
         LET r == combine_texts(dirs, output_dir, now, open_ok, fail_at)
         IN  /\ dirs' = r.dirs
             /\ combine_returned' = r.returned
             /\ txt_files' = r.candidates
    /\ prev_returned' = combine_returned
    /\ UNCHANGED now
    /\ UNCHANGED <<batchVars, stripVars, cleanVars, discoverVars>>

\* A second passes.
Tick ==
    /\ now < MaxTime
    /\ now' = now + 1
    /\ UNCHANGED <<dirs, combine_returned, prev_returned, txt_files>>
    /\ UNCHANGED <<batchVars, stripVars, cleanVars, discoverVars>>

CombineNext ==
    \/ CombineTexts
    \/ Tick

SpecCombine == CombineInit /\ [][CombineNext]_vars

(***************************************************************************)
(* Repeated combinations in both modes on a directory that artifacts are   *)
(* added to (specification SpecRecombine).  The reads of the candidates    *)
(* succeed; the output file may fail to open.                              *)
(***************************************************************************)
\* The content of the artifact <stem>.txt of the k-th image.
ArtifactText(k) == IF k % 2 = 1 THEN <<"x">> ELSE <<" ", "y", "\n">>

RecombineInit ==
    /\ BatchIdle
    /\ StripIdle
    /\ CleanIdle
    /\ DiscoverIdle
    /\ now = 0
    /\ combine_returned = NoPath
    /\ prev_returned = NoPath
    /\ txt_files = {}
    /\ \E d \in {"texts", "raw_texts"}, n \in 0..MaxFiles :
         dirs = [e \in {"texts", "raw_texts"} |->
                   IF e = d
                   THEN [f \in {g \in PlainNames : g[2] <= n}
                                  \cup {PriorCombined, LogFile} |->
                           IF f[1] = "" /\ f[3] = "txt"
                           THEN ArtifactText(f[2]) ELSE <<"x">>]
                   ELSE EmptyDir]

\* combine_texts(output_dir)
CombineTextsAgain ==
    /\ \E output_dir \in {"texts", "raw_texts", "other"}, open_ok \in BOOLEAN :
         LET r == combine_texts(dirs, output_dir, now, open_ok, 0)
         IN  /\ dirs' = r.dirs
             /\ combine_returned' = r.returned
             /\ txt_files' = r.candidates
    /\ prev_returned' = combine_returned
    /\ UNCHANGED now
    /\ UNCHANGED <<batchVars, stripVars, cleanVars, discoverVars>>

\* combine_texts_with_headers(output_dir)
CombineTextsWithHeaders ==
    /\ \E output_dir \in {"texts", "raw_texts", "other"}, open_ok \in BOOLEAN :
         LET r == combine_texts_with_headers(dirs, output_dir, now, open_ok, 0)
         IN  /\ dirs' = r.dirs
             /\ combine_returned' = r.returned
             /\ txt_files' = r.candidates
    /\ prev_returned' = combine_returned
    /\ UNCHANGED now
    /\ UNCHANGED <<batchVars, stripVars, cleanVars, discoverVars>>

\* Between two combinations extract_text_from_image writes the artifact of
\* the next image into the directory (lines 150-152 for raw_texts,
\* clean_text_file for texts).
WriteArtifact ==
    /\ \E d \in {"texts", "raw_texts"} :
         /\ DOMAIN dirs[d] # {}
         /\ LET n == Cardinality(PlainNames \cap DOMAIN dirs[d])
            IN  /\ n < MaxFiles
                /\ dirs' = [dirs EXCEPT ![d] =
                              WithFile(@, <<"", n + 1, "txt">>,
                                       ArtifactText(n + 1))]
    /\ UNCHANGED <<now, combine_returned, prev_returned, txt_files>>
    /\ UNCHANGED <<batchVars, stripVars, cleanVars, discoverVars>>

RecombineNext ==
    \/ CombineTextsAgain
    \/ CombineTextsWithHeaders
    \/ WriteArtifact
    \/ Tick

SpecRecombine == RecombineInit /\ [][RecombineNext]_vars

(***************************************************************************)
(* get_image_files on a directory tree (specification SpecDiscover), on a  *)
(* platform where pathlib matches patterns case-sensitively (POSIX).  An   *)
(* entry is <<folder, stem, ext>>: folder 0 is images/ itself and folder 1 *)
(* is images/z/; the stems are a, b, ... in this order; ext is one of the  *)
(* spellings 1 ".JPG", 2 ".Jpg", 3 ".PNG", 4 ".Png", 5 ".jpg", 6 ".png",   *)
(* 7 ".txt", numbered in the order of their characters.  The order of the  *)
(* triples is then the order of the paths.                                 *)
(***************************************************************************)
MaxEntries == 2

Folders == {0, 1}
ExtSpellings == {1, 2, 3, 4, 5, 6, 7}
Entries == Folders \X Stems \X ExtSpellings

\* The allow-lists of the configuration: lower-case spellings.
AllowLists == {<<5>>, <<6>>, <<5, 6>>}

\* ext.upper(): ".JPG" for the spellings of jpg, ".PNG" for those of png,
\* and 0 for ".TXT", which no entry of the model is spelled with.
ExtUpper(ext) ==
    IF ext \in {1, 2, 5} THEN 1
    ELSE IF ext \in {3, 4, 6} THEN 3
    ELSE 0

\* images_dir.rglob('*' + ext): the entries, at any depth, whose name ends
\* with exactly this spelling.
RGlob(entries, ext) == {p \in entries : p[3] = ext}

EntryLess(p, q) ==
    \/ p[1] < q[1]
    \/ p[1] = q[1] /\ p[2] < q[2]
    \/ p[1] = q[1] /\ p[2] = q[2] /\ p[3] < q[3]

\* sorted(image_files), without the repetitions of a path.
RECURSIVE SortedEntries(_)
SortedEntries(S) ==
    IF S = {} THEN <<>>
    ELSE LET m == CHOOSE p \in S : \A q \in S \ {p} : EntryLess(p, q)
         IN  <<m>> \o SortedEntries(S \ {m})

\* Lines 74-79: the first path of each stem.
RECURSIVE UniqueFiles(_, _)
UniqueFiles(paths, seen_stems) ==
    IF paths = <<>> THEN <<>>
    ELSE IF Head(paths)[2] \in seen_stems
         THEN UniqueFiles(Tail(paths), seen_stems)
         ELSE <<Head(paths)>>
              \o UniqueFiles(Tail(paths), seen_stems \cup {Head(paths)[2]})

\* get_image_files() for the entries under images/ and the allow-list.
GetImageFilesUnder(entries, extensions) ==
    LET found ==
            UNION {RGlob(entries, extensions[k])
                     \cup RGlob(entries, ExtUpper(extensions[k])) :
                   k \in 1..Len(extensions)}
    IN  IF found = {} THEN <<>>
        ELSE UniqueFiles(SortedEntries(found), {})

NoEntry == <<0, 0, 0>>

DiscoverInit ==
    /\ BatchIdle
    /\ StripIdle
    /\ CleanIdle
    /\ CombineIdle
    /\ \E picks \in [1..MaxEntries -> Entries \cup {NoEntry}] :
         tree = {picks[k] : k \in 1..MaxEntries} \ {NoEntry}
    /\ supported_extensions \in AllowLists
    /\ discover_called = FALSE
    /\ discovered = <<>>

Discover ==
    /\ ~discover_called
    /\ discovered' = GetImageFilesUnder(tree, supported_extensions)
    /\ discover_called' = TRUE
    /\ UNCHANGED <<tree, supported_extensions>>
    /\ UNCHANGED <<batchVars, stripVars, cleanVars, combineVars>>

DiscoverNext == Discover

SpecDiscover == DiscoverInit /\ [][DiscoverNext]_vars

(***************************************************************************)
(* Properties of the batch (specification Spec).                           *)
(***************************************************************************)
StemsOf(paths) == {paths[k][1] : k \in 1..Len(paths)}
ErrorNames == {errors[k].name : k \in 1..Len(errors)}
\* extract_text_from_image is not running: before the first image, between
\* two images, or after the last.
BetweenImages == (pc = "loop" /\ step = "check") \/ pc \in {"summary", "done"}

\* C1: a per-file failure never aborts the batch.  The images handed to
\* extract_text_from_image are always a prefix of the discovered list, which
\* is in ascending path order; once the loop is over every discovered image
\* was attempted exactly once and in order; on return total = successful +
\* failed = the number of discovered images, there is one error message per
\* failed file, and every image is either in processed_files or named by an
\* error message.  The process never exits once the loop has begun.
C1_BatchNeverAborts ==
    /\ Len(attempted) <= Len(image_files)
    /\ attempted = SubSeq(image_files, 1, Len(attempted))
    /\ \A a, b \in 1..Len(image_files) :
         a < b => PathLess(image_files[a], image_files[b])
    /\ pc \in {"summary", "done"} => attempted = image_files
    /\ pc \in {"loop", "summary", "done"} => exit_status = <<>>
    /\ Len(errors) = failed
    /\ pc = "done" =>
         /\ total = Len(image_files)
         /\ total = successful + failed
         /\ \A k \in 1..Len(image_files) :
              (image_files[k] \in Range(processed_files))
                 # (image_files[k] \in ErrorNames)

\* C1 witness: a finished batch of two images whose first image failed and
\* whose second image was still processed.
C1_Witness ==
    /\ pc = "done"
    /\ total = 2
    /\ failed = 1
    /\ errors[1].name = image_files[1]
    /\ processed_files = <<image_files[2]>>
    /\ 2 \in completed

\* C2 (as claimed): an image is skipped, with no upload and no artifact
\* written, exactly when both of its artifacts exist as it is reached, and an
\* image with one or none of them is uploaded again; and a run that follows a
\* run in which every image succeeded creates no new artifact.
C2_SkipIffBothExist_RerunCreatesNothing ==
    /\ skipped = both_existed
    /\ \A s \in skipped :
         /\ s \notin upload_calls
         /\ s \notin completed
         /\ \A w \in written : w[2] # s
    /\ \A k \in 1..Len(attempted) :
         (/\ attempted[k][1] \notin both_existed
          /\ ~(pc = "loop" /\ step = "upload" /\ i = k))
            => attempted[k][1] \in upload_calls
    /\ prev_all_ok => \A w \in written : w[3]

\* The first half of C2 alone, which the code satisfies.
SkipIffBothExist ==
    /\ skipped = both_existed
    /\ \A s \in skipped :
         /\ s \notin upload_calls
         /\ s \notin completed
         /\ \A w \in written : w[2] # s
    /\ \A k \in 1..Len(attempted) :
         (/\ attempted[k][1] \notin both_existed
          /\ ~(pc = "loop" /\ step = "upload" /\ i = k))
            => attempted[k][1] \in upload_calls

\* C3 (as claimed): a skipped image is in neither count: successful and
\* processed_files count only the images uploaded and processed in this run.
C3_SkippedNotCounted ==
    pc = "done" =>
        /\ successful = Cardinality(completed)
        /\ StemsOf(processed_files) \cap skipped = {}

\* C3 (amended): a skipped image is counted as successful and listed in
\* processed_files: successful is the number of images skipped plus the
\* number processed in this run, processed_files lists exactly those, and no
\* skipped image is counted as failed.
C3_SkippedCountedAsSuccess ==
    /\ skipped \cap completed = {}
    /\ successful = Cardinality(skipped) + Cardinality(completed)
    /\ Len(processed_files) = successful
    /\ StemsOf(processed_files) = skipped \cup completed
    /\ \A e \in ErrorNames : e[1] \notin skipped
    /\ Len(errors) = failed

\* C3 witness: a finished run that skipped one image and processed another.
C3_Witness ==
    /\ pc = "done"
    /\ skipped # {}
    /\ completed # {}
    /\ successful = 2
    /\ failed = 0

\* C4 (as claimed): the combination is triggered only if an image was newly
\* processed in this run, and a run that skipped every image produces no
\* Combined Artifact.
C4_CombineOnlyAfterNewSuccess ==
    /\ combine_called => completed # {}
    /\ (pc = "done" /\ completed = {}) => combined = {}

\* C4 (amended): the combination is triggered exactly when successful > 0 at
\* the end of the loop, that is when at least one image was skipped or newly
\* processed in this run; a Combined Artifact is produced only by a
\* triggered combination.
C4_CombineIffSuccessful ==
    /\ pc # "done" => ~combine_called
    /\ (pc = "done" /\ image_files # <<>>) =>
          /\ combine_called <=> successful > 0
          /\ combine_called <=> (skipped \cup completed) # {}
    /\ (pc = "done" /\ image_files = <<>>) => ~combine_called
    /\ combined # {} => combine_called

\* C4 witness: a finished run that skipped every image, processed none, and
\* still produced a Combined Artifact.
C4_Witness ==
    /\ pc = "done"
    /\ image_files # <<>>
    /\ Cardinality(skipped) = Len(image_files)
    /\ completed = {}
    /\ upload_calls = {}
    /\ combined # {}

\* C5 (as claimed): whenever extract_text_from_image has returned, no
\* document it created is left on the remote service.
C5_NoRemoteDocumentLeft ==
    BetweenImages => remote = {}

\* C5 (amended): whenever extract_text_from_image has returned success, the
\* document it created has been deleted; a document left on the remote
\* service belongs to an image whose processing returned a failure.
C5_RemoteDeletedOnSuccess ==
    /\ remote \cap StemsOf(processed_files) = {}
    /\ remote \cap (skipped \cup completed) = {}
    /\ (pc = "loop" /\ step = "clean") => stem \notin remote
    /\ BetweenImages => \A d \in remote : \E e \in ErrorNames : e[1] = d
    /\ remote \subseteq upload_calls

\* C5 witness: a finished run in which one image was processed (its document
\* deleted) and the document of a failed image is still on the remote
\* service.
C5_Witness ==
    /\ pc = "done"
    /\ completed # {}
    /\ remote # {}
    /\ failed = 1

\* C6: a failure of authentication or of the service initialization ends the
\* process with status 1 before any batch work: nothing was discovered,
\* attempted, uploaded, written or combined.  The process exits in no other
\* way: per-file failures leave it running.
C6_AuthFailureExitsBeforeBatch ==
    /\ auth_error # None => pc = "exited"
    /\ pc = "exited" =>
         /\ exit_status = <<1>>
         /\ auth_error \in {"FileNotFoundError", "Exception"}
         /\ ~service
         /\ image_files = <<>>
         /\ attempted = <<>>
         /\ upload_calls = {}
         /\ remote = {}
         /\ written = {}
         /\ ~combine_called
         /\ combined = {}
    /\ pc # "exited" => exit_status = <<>>
    /\ failed > 0 => exit_status = <<>>
    /\ pc \in {"discover", "loop", "summary", "done"} => service

\* C6 witness: a run that follows a completed batch and exits on a failed
\* service initialization.
C6_Witness ==
    /\ pc = "exited"
    /\ auth_error = "Exception"
    /\ prev_all_ok


(***************************************************************************)
(* Properties of the metadata stripping (specification SpecStrip).         *)
(***************************************************************************)
NewlineCount(t) == Cardinality({k \in 1..Len(t) : t[k] = "\n"})

\* The position of the n-th "\n" of t.
NthNewline(t, n) ==
    CHOOSE k \in 1..Len(t) :
        /\ t[k] = "\n"
        /\ Cardinality({j \in 1..k : t[j] = "\n"}) = n

\* The number of lines of a text: a final "\n" ends the last line, it does
\* not begin another.
NumLines(t) ==
    NewlineCount(t) + (IF t # <<>> /\ t[Len(t)] # "\n" THEN 1 ELSE 0)

\* t without everything up to and including its second "\n".
AfterSecondNewline(t) == SubSeq(t, NthNewline(t, 2) + 1, Len(t))

\* C8 (as claimed): an export text of 2 or fewer lines, a final "\n"
\* included, is written unmodified; one of more than 2 lines is written
\* without its first 2 lines.
C8_TwoOrFewerLinesUnmodified ==
    raw_written # Absent =>
        IF NumLines(export_text) <= 2
        THEN raw_written = export_text
        ELSE raw_written = AfterSecondNewline(export_text)

\* C8 (amended): an export text with at most one "\n" (2 or fewer parts of
\* split('\n')) is written unmodified; one with two or more "\n" is written
\* without everything up to and including its second "\n", the remainder
\* unchanged.  A 2-line text that ends with "\n" has two "\n", so it is
\* written as the empty text.
C8_StripsThroughSecondNewline ==
    raw_written # Absent =>
        IF NewlineCount(export_text) <= 1
        THEN raw_written = export_text
        ELSE raw_written = AfterSecondNewline(export_text)

\* C8 witness: the 2-line text "m\nm\n" was stripped to the empty text.
C8_Witness ==
    /\ export_text = <<"m", "\n", "m", "\n">>
    /\ raw_written = <<>>

(***************************************************************************)
(* Properties of clean_text_file (specification SpecCleanFile).            *)
(***************************************************************************)
\* C7 (as claimed): after clean_text_file has returned, with the raw file
\* readable, the clean file exists.
C7_CleanNeverAbsentWhenRawReadable ==
    /\ (clean_log.called /\ ~clean_log.raw_unreadable) => clean_file # Absent
    /\ (reclean_log.called /\ ~reclean_log.raw_unreadable)
          => reclean_file # Absent

\* C7 (amended): after clean_text_file has returned, the clean file is
\* absent only if the primary path and the fallback copy both failed (the
\* "Failed to copy raw content" case, which a readable raw file does not
\* exclude); if the primary path succeeded the clean file exists, and if
\* only the primary path failed it holds the raw content as read.
C7_CleanAbsentOnlyIfCopyFailed ==
    /\ clean_log.called =>
         /\ clean_file = Absent
               => (clean_log.primary_failed /\ clean_log.copy_failed)
         /\ ~clean_log.primary_failed => clean_file # Absent
         /\ (clean_log.primary_failed /\ ~clean_log.copy_failed)
               => clean_file = ReadText(raw_file)
    /\ reclean_log.called =>
         /\ reclean_file = Absent
               => (reclean_log.primary_failed /\ reclean_log.copy_failed)
         /\ ~reclean_log.primary_failed => reclean_file # Absent
         /\ (reclean_log.primary_failed /\ ~reclean_log.copy_failed)
               => reclean_file = ReadText(clean_file)

\* C7 witness: the primary path failed and the fallback copied a raw text
\* with a line break verbatim into a clean file that did not exist.
C7_Witness ==
    /\ clean_log.called
    /\ clean_log.primary_failed
    /\ ~clean_log.copy_failed
    /\ raw_file = <<"x", "\n", "x">>
    /\ clean_file = raw_file
    /\ ~reclean_log.called

\* A cleaned text: no line break, no two consecutive spaces, no whitespace
\* at either end.
WellCleaned(t) ==
    /\ \A k \in 1..Len(t) : t[k] \notin {"\n", "\r"}
    /\ \A k \in 1..(Len(t) - 1) : ~(t[k] = " " /\ t[k+1] = " ")
    /\ t # <<>> => (t[1] \notin Whitespace /\ t[Len(t)] \notin Whitespace)

\* C9: text cleaning is idempotent.  What the cleaning writes has no "\n",
\* no "\r", no two consecutive spaces and no whitespace at either end, and
\* cleaning that output again writes the same text.
C9_CleaningIdempotent ==
    /\ (clean_log.called /\ ~clean_log.primary_failed)
          => WellCleaned(clean_file)
    /\ (reclean_log.called /\ ~reclean_log.primary_failed)
          => WellCleaned(reclean_file)
    /\ (/\ clean_log.called /\ ~clean_log.primary_failed
        /\ reclean_log.called /\ ~reclean_log.primary_failed)
          => reclean_file = clean_file

\* C9 witness: a raw text with a run of line breaks between two words was
\* cleaned to "x x", and cleaning that again gave "x x".
C9_Witness ==
    /\ raw_file = <<"x", "\n", "\r", "x">>
    /\ clean_log.called /\ ~clean_log.primary_failed
    /\ reclean_log.called /\ ~reclean_log.primary_failed
    /\ clean_file = <<"x", " ", "x">>
    /\ reclean_file = <<"x", " ", "x">>


(***************************************************************************)
(* Properties of the no-header combination (specification SpecCombine).    *)
(***************************************************************************)
\* The separator the specification names: "\n\n--- Next File ---\n\n".
NextFileLine ==
    <<"-", "-", "-", " ", "N", "e", "x", "t", " ", "F", "i", "l", "e", " ",
      "-", "-", "-">>
ClaimedSeparator == <<"\n", "\n">> \o NextFileLine \o <<"\n", "\n">>

\* The plain text files of a directory: the candidates of a combination.
PlainTextFiles(dir) == {f \in DOMAIN dir : f[1] = "" /\ f[3] = "txt"}

RECURSIVE TotalLen(_, _)
TotalLen(dir, S) ==
    IF S = {} THEN 0
    ELSE LET f == CHOOSE g \in S : TRUE
         IN  Len(dir[f]) + TotalLen(dir, S \ {f})

\* Where the bytes of candidate f begin in the combined file: after the
\* candidates of smaller name, each followed by one separator.
OffsetOf(dir, f) ==
    LET before == {g \in PlainTextFiles(dir) : g[2] < f[2]}
    IN  TotalLen(dir, before) + Cardinality(before) * Len(ClaimedSeparator)

\* C10: a no-header combination that returns a path has written, to
\* combined_all_<timestamp>.txt of the target directory, the bytes of the
\* N >= 1 candidates in lexicographic order of their names, with the literal
\* separator after each candidate but the last and nothing else: the output
\* has L + (N-1) * len(separator) bytes, L the total length of the
\* candidates.
C10_NoHeaderCombination ==
    combine_returned # NoPath =>
        LET dir == dirs[combine_returned[1]]
            out == combine_returned[2]
            cands == PlainTextFiles(dir)
            N == Cardinality(cands)
        IN  /\ combine_returned[1] \in {"texts", "raw_texts"}
            /\ out[1] = "combined_all_"
            /\ out \in DOMAIN dir
            /\ N >= 1
            /\ Len(dir[out])
                 = TotalLen(dir, cands) + (N - 1) * Len(ClaimedSeparator)
            /\ \A f \in cands :
                 LET start == OffsetOf(dir, f)
                     stop == start + Len(dir[f])
                 IN  /\ SubSeq(dir[out], start + 1, stop) = dir[f]
                     /\ (\E g \in cands : g[2] > f[2]) =>
                           SubSeq(dir[out], stop + 1,
                                  stop + Len(ClaimedSeparator))
                              = ClaimedSeparator

\* C10 witness: two candidates "x" and "y\n" were combined, beside a
\* combined file and a log file, into "x", the separator, "y\n".
C10_Witness ==
    /\ combine_returned # NoPath
    /\ LET dir == dirs[combine_returned[1]]
       IN  /\ PlainTextFiles(dir) = {<<"", 1, "txt">>, <<"", 2, "txt">>}
           /\ dir[<<"", 1, "txt">>] = <<"x">>
           /\ dir[<<"", 2, "txt">>] = <<"y", "\n">>
           /\ dir[combine_returned[2]]
                = <<"x">> \o ClaimedSeparator \o <<"y", "\n">>
           /\ PriorCombined \in DOMAIN dir

(***************************************************************************)
(* Properties of repeated combinations (specification SpecRecombine).      *)
(***************************************************************************)
\* The files of a directory whose name begins with 'combined_'.
CombinedFiles(dir) ==
    {f \in DOMAIN dir : f[1] \in {"combined_", "combined_all_",
                                  "combined_cleaned_", "combined_raw_"}}

\* No file whose name begins with 'combined_' is in the candidate list of
\* the last combination, and every candidate is a .txt file.
CombinedNeverCandidate ==
    \A f \in txt_files : f[1] = "" /\ f[3] = "txt"

\* Every step keeps each file whose name begins with 'combined_', with the
\* bytes it held.
CombinedFilesKept ==
    \A d \in DOMAIN dirs : \A f \in CombinedFiles(dirs[d]) :
        /\ f \in DOMAIN dirs'[d]
        /\ dirs'[d][f] = dirs[d][f]

\* C11: a file of the target directory whose name begins with 'combined_',
\* the Combined Artifacts of earlier combinations included, is never in the
\* candidate list of a new combination, in header or no-header mode, and no
\* combination deletes or alters it.
C11_CombinedExcludedAndUntouched ==
    [][CombinedNeverCandidate' /\ CombinedFilesKept]_vars

\* C12: two successive combinations on the same target directory in the
\* same mode, within the same clock second or not, return different output
\* paths, so that the later one does not overwrite the Combined Artifact of
\* the earlier one.
C12_OutputPathsNeverCollide ==
    (/\ prev_returned # NoPath
     /\ combine_returned # NoPath
     /\ prev_returned[1] = combine_returned[1]
     /\ prev_returned[2][1] = combine_returned[2][1])
        => prev_returned[2] # combine_returned[2]

(***************************************************************************)
(* Properties of the discovery (specification SpecDiscover).               *)
(***************************************************************************)
\* The lower-case spelling of an extension: ".jpg", ".png" or ".txt".
ExtLower(ext) ==
    IF ext \in {1, 2, 5} THEN 5
    ELSE IF ext \in {3, 4, 6} THEN 6
    ELSE 7

\* The list holds exactly the entries that `matches` selects and that no
\* selected entry of the same stem precedes, in ascending order.
ListsFirstOfEachStem(list, matches(_)) ==
    /\ Range(list) =
         {p \in tree : /\ matches(p)
                       /\ \A q \in tree :
                            (matches(q) /\ q[2] = p[2] /\ q # p)
                               => EntryLess(p, q)}
    /\ \A a, b \in 1..Len(list) : a < b => EntryLess(list[a], list[b])

MatchesIgnoringCase(p) ==
    \E k \in 1..Len(supported_extensions) :
        ExtLower(p[3]) = ExtLower(supported_extensions[k])

MatchesLowerOrUpper(p) ==
    \E k \in 1..Len(supported_extensions) :
        p[3] \in {supported_extensions[k], ExtUpper(supported_extensions[k])}

\* C13: get_image_files returns exactly the entries under images/, at any
\* depth, whose extension equals an extension of the allow-list when case
\* is ignored (lower, upper and mixed case alike), only the first entry of
\* each stem in the order of the paths, in sorted order.
C13_DiscoveryIgnoresCase ==
    discover_called => ListsFirstOfEachStem(discovered, MatchesIgnoringCase)

\* What holds instead: the same with the extensions spelled as the
\* allow-list spells them or in upper case.
DiscoveryOfLowerAndUpper ==
    discover_called => ListsFirstOfEachStem(discovered, MatchesLowerOrUpper)

=============================================================================
